---- MODULE Spec2Model ----
(***************************************************************************)
(* pagerank.py: transition_model, sample_pagerank and iterate_pagerank.    *)
(*                                                                         *)
(* Pages are numbered 1..k by their position in the corpus dictionary's    *)
(* iteration (insertion) order; page identifiers are opaque, so every      *)
(* corpus with every insertion order is a renaming of one modelled here.   *)
(* Floating-point values are modelled as exact rationals <<num, den>> in   *)
(* lowest terms with den > 0.  A Python dict is a function whose DOMAIN is *)
(* its key set.                                                            *)
(***************************************************************************)
EXTENDS Integers, Sequences, FiniteSets, TLC

\* Largest number of pages in a corpus.  (From four pages on, two sweeps with
\* damping 17/20 give denominators beyond TLC's 32-bit integers.)
NumPages == 2
\* Largest sample count n passed to sample_pagerank.
MaxSamples == 2
\* Cap on the sweeps of the `while True` loop explored by the model.
MaxSweeps == 3

\* Value of a local variable that has not been assigned yet.
NoPage == 0

(***************************************************************************)
(* Exact rational arithmetic standing for Python's float operators.        *)
(***************************************************************************)
Abs(x) == IF x < 0 THEN -x ELSE x

\* The one element of a singleton set.  The operators below bind their
\* arguments through a singleton, so that each argument is evaluated once.
The(S) == CHOOSE x \in S : TRUE

\* Euclid's algorithm on the pair x of naturals
RECURSIVE GcdPair(_)
GcdPair(x) ==
    IF x[2] = 0 THEN x[1]
    ELSE The({ GcdPair(y) : y \in {<<x[2], x[1] % x[2]>>} })

GCD(a, b) == The({ GcdPair(x) : x \in {<<a, b>>} })

\* the pair x = <<nu, de>>, de # 0, in lowest terms with a positive denominator
Reduce(x) ==
    LET g == GCD(Abs(x[1]), Abs(x[2]))
        s == IF x[2] < 0 THEN -1 ELSE 1
    IN  <<(s * x[1]) \div g, (s * x[2]) \div g>>

\* nu / de for integers nu and de # 0
Rat(nu, de) == The({ Reduce(x) : x \in {<<nu, de>>} })

Zero == <<0, 1>>
One == <<1, 1>>

\* a + b over the least common denominator, so that products stay small
AddPair(x) ==
    LET g == GCD(x[1][2], x[2][2])
    IN  Reduce(<<x[1][1] * (x[2][2] \div g) + x[2][1] * (x[1][2] \div g),
                 (x[1][2] \div g) * x[2][2]>>)

\* a * b, cancelling across before multiplying
MulPair(x) ==
    LET g1 == GCD(Abs(x[1][1]), x[2][2])
        g2 == GCD(Abs(x[2][1]), x[1][2])
    IN  Reduce(<<(x[1][1] \div g1) * (x[2][1] \div g2),
                 (x[1][2] \div g2) * (x[2][2] \div g1)>>)

RAdd(a, b) == The({ AddPair(x) : x \in {<<a, b>>} })
RNeg(a) == The({ <<-x[1], x[2]>> : x \in {a} })
RSub(a, b) == RAdd(a, RNeg(b))
RMul(a, b) == The({ MulPair(x) : x \in {<<a, b>>} })
\* a / k for an integer k # 0 (a length)
RDivInt(a, k) == The({ Reduce(<<x[1][1], x[1][2] * x[2]>>) : x \in {<<a, k>>} })
RAbs(a) == The({ <<Abs(x[1]), x[2]>> : x \in {a} })
RLeq(a, b) == RSub(a, b)[1] <= 0
RPos(a) == a[1] > 0

\* sum of the values of the dict x[1] over the keys in x[2]
RECURSIVE SumPair(_)
SumPair(x) ==
    IF x[2] = {} THEN Zero
    ELSE The({ RAdd(x[1][y], SumPair(<<x[1], x[2] \ {y}>>))
               : y \in {CHOOSE z \in x[2] : TRUE} })

\* sum of the values of dict f over the keys in S
RSumOver(f, S) == The({ SumPair(x) : x \in {<<f, S>>} })

\* DAMPING = 0.85
DAMPING == <<17, 20>>
\* damping factors tried: 0, 1/2, 0.85 and 1
Dampings == {Zero, <<1, 2>>, DAMPING, One}
\* the tolerance literal 0.001 of the stop test
Tolerance == <<1, 1000>>

(***************************************************************************)
(* The corpus, as crawl() builds it: every link target is a key and no     *)
(* page links to itself.  The empty dict is a possible value.              *)
(***************************************************************************)
Corpora ==
    UNION { { c \in [1..k -> SUBSET (1..k)] : \A p \in 1..k : p \notin c[p] }
            : k \in 0..NumPages }

\* len(corpus)
N(c) == Cardinality(DOMAIN c)

\* the keys in `for c in corpus` order
Keys(c) == [j \in 1..N(c) |-> j]

\* d.update({k: v})
Update(d, k, v) ==
    The({ [q \in DOMAIN x[1] \cup {x[2]} |-> IF q = x[2] THEN x[3] ELSE x[1][q]]
          : x \in {<<d, k, v>>} })

(***************************************************************************)
(* transition_model(corpus, page, damping_factor)                          *)
(***************************************************************************)
transition_model(c, pg, d) ==
    LET base == RDivInt(RSub(One, d), N(c))
    IN  [q \in DOMAIN c |->
            IF q \in c[pg]
            THEN RAdd(RDivInt(d, Cardinality(c[pg])), base)
            ELSE base]

(***************************************************************************)
(* sample_pagerank helpers                                                 *)
(***************************************************************************)
\* samp.append(random_page), with a variant that records a page only once
RecordVisitOnce(s, pg) ==
    IF \E k \in 1..Len(s) : s[k] = pg THEN s ELSE Append(s, pg)

RecordVisit(s, pg) == Append(s, pg)

\* samp.count(j)
Count(s, j) == Cardinality({k \in 1..Len(s) : s[k] = j})

\* set(samp)
Visited(s) == {s[k] : k \in 1..Len(s)}

\* the dict built by the counting loop: {j: samp.count(j)/n for j in set(samp)}
SampleRanks(s, cnt) == [j \in Visited(s) |-> Rat(Count(s, j), cnt)]

(***************************************************************************)
(* iterate_pagerank helpers.  The local `pr` is a reference: either to the *)
(* dict built on entry (alias = FALSE, val = that dict) or to the very     *)
(* dict object `pagerank` (alias = TRUE).                                  *)
(***************************************************************************)
\* pr = {c: 1/n for c in corpus}
InitialRanks(c) == [alias |-> FALSE, val |-> [q \in DOMAIN c |-> Rat(1, N(c))]]

\* `pr = pagerank`, with a variant that binds pr to a copy of the dict
RebindCopy(pg) == [alias |-> FALSE, val |-> pg]

Rebind(pg) == [alias |-> TRUE, val |-> << >>]

\* the dict that `pr` denotes while `pagerank` holds pg
Deref(prr, pg) == IF prr.alias THEN pg ELSE prr.val

\* the inner loop: sum of pr[p] / len(corpus[p]) over the pages p linking to pg
LinkSum(c, prv, pg) ==
    The({ LET from == {p \in DOMAIN c : pg \in c[p]}
          IN  RSumOver([p \in from |-> RDivInt(x[p], Cardinality(c[p]))], from)
          : x \in {prv} })

\* (1 - damping_factor) / n + damping_factor * sum
NewRank(c, prv, pg, d) ==
    RAdd(RDivInt(RSub(One, d), N(c)), RMul(d, LinkSum(c, prv, pg)))

\* one pass of the body of `for page in corpus`
UpdatePage(c, d, pg, prr, p) == Update(pg, p, NewRank(c, Deref(prr, pg), p, d))

\* abs(pagerank[page] - pr[page]) <= 0.001
StopTest(pg, prr, p) == RLeq(RAbs(RSub(pg[p], Deref(prr, pg)[p])), Tolerance)

(***************************************************************************)
(* iterate_pagerank as a function of the corpus, the enumeration order o   *)
(* of its keys and the damping factor: the same passes as the actions      *)
(* below take, run to the return.                                          *)
(***************************************************************************)
\* the permutations of a key set, the possible dict iteration orders
Orders(S) ==
    { o \in [1..Cardinality(S) -> S] :
        \A a, b \in 1..Cardinality(S) : o[a] = o[b] => a = b }

\* the `for page in corpus` loop from position k on
RECURSIVE SweepFrom(_, _, _, _, _, _)
SweepFrom(c, o, d, pg, prr, k) ==
    IF k > Len(o) THEN pg
    ELSE SweepFrom(c, o, d, UpdatePage(c, d, pg, prr, o[k]), prr, k + 1)

\* the `while True` loop, at most fuel + 1 passes of it
RECURSIVE IterateFrom(_, _, _, _, _, _)
IterateFrom(c, o, d, pg, prr, fuel) ==
    LET pg2 == SweepFrom(c, o, d, pg, prr, 1)
    IN  IF fuel = 0 \/ StopTest(pg2, prr, o[Len(o)]) THEN pg2
        ELSE IterateFrom(c, o, d, pg2, Rebind(pg2), fuel - 1)

IterateResult(c, o, d) == IterateFrom(c, o, d, << >>, InitialRanks(c), MaxSweeps)


VARIABLES
    corpus,       \* argument: dict page -> set of linked pages
    damping,      \* argument damping_factor
    n,            \* argument n of sample_pagerank (0 when iterate_pagerank runs)
    call,         \* the function being run
    pc,           \* "call", "loop", "sweep", "done" or "error"
    err,          \* the exception raised when pc = "error"
    pagerank,     \* local dict `pagerank` of the running function; its result
    random_page,  \* sample_pagerank: local random_page
    samp,         \* sample_pagerank: list samp
    i,            \* sample_pagerank: iterations of `for i in range(n)` done
    tm,           \* sample_pagerank: local tm
    pr,           \* iterate_pagerank: local pr (a reference)
    page,         \* iterate_pagerank: loop variable page
    idx,          \* iterate_pagerank: position of the `for page in corpus` loop
    sweeps,       \* iterate_pagerank: completed passes of the for loop
    prevVec       \* iterate_pagerank: the rank vector as the previous pass left it

vars == <<corpus, damping, n, call, pc, err, pagerank, random_page, samp, i,
          tm, pr, page, idx, sweeps, prevVec>>

sampleVars == <<random_page, samp, i, tm>>
iterVars == <<pr, page, idx, sweeps, prevVec>>
argVars == <<corpus, damping, n, call>>

Locals ==
    /\ pc = "call"
    /\ err = "none"
    /\ pagerank = << >>
    /\ random_page = NoPage
    /\ samp = << >>
    /\ i = 0
    /\ tm = << >>
    /\ pr = [alias |-> FALSE, val |-> << >>]
    /\ page = NoPage
    /\ idx = 0
    /\ sweeps = 0
    /\ prevVec = << >>

SampleInit ==
    /\ call = "sample_pagerank"
    /\ corpus \in Corpora
    /\ damping \in Dampings
    /\ n \in -1..MaxSamples
    /\ Locals

IterInit ==
    /\ call = "iterate_pagerank"
    /\ corpus \in Corpora
    /\ damping \in Dampings
    /\ n = 0
    /\ Locals

Init == SampleInit \/ IterInit

(***************************************************************************)
(* sample_pagerank                                                         *)
(***************************************************************************)
\* random.choice(list(corpus.keys())) on a non-empty corpus
SampleStart ==
    /\ call = "sample_pagerank" /\ pc = "call"
    /\ DOMAIN corpus # {}
    /\ \E p \in DOMAIN corpus : random_page' = p
    /\ pc' = "loop"
    /\ UNCHANGED <<argVars, err, pagerank, samp, i, tm, iterVars>>

\* random.choice of an empty list raises IndexError
SampleEmptyCorpus ==
    /\ call = "sample_pagerank" /\ pc = "call"
    /\ DOMAIN corpus = {}
    /\ pc' = "error"
    /\ err' = "IndexError"
    /\ UNCHANGED <<argVars, pagerank, sampleVars, iterVars>>

\* one iteration of the walk; random.choices draws a page of positive weight
SampleStep ==
    /\ call = "sample_pagerank" /\ pc = "loop"
    /\ i < n
    /\ LET t == transition_model(corpus, random_page, damping)
       IN  /\ tm' = t
           /\ \E q \in DOMAIN t : RPos(t[q]) /\ random_page' = q
    /\ samp' = RecordVisit(samp, random_page)
    /\ i' = i + 1
    /\ UNCHANGED <<argVars, pc, err, pagerank, iterVars>>

\* one iteration in which every weight is 0: random.choices raises ValueError
\* (Python >= 3.9) or returns the last element of the population (before 3.9)
SampleStepZeroWeights ==
    /\ call = "sample_pagerank" /\ pc = "loop"
    /\ i < n
    /\ LET t == transition_model(corpus, random_page, damping)
       IN  /\ tm' = t
           /\ \A q \in DOMAIN t : ~RPos(t[q])
    /\ samp' = RecordVisit(samp, random_page)
    /\ \/ /\ pc' = "error"
          /\ err' = "ValueError"
          /\ UNCHANGED <<random_page, i>>
       \/ /\ random_page' = Keys(corpus)[N(corpus)]
          /\ i' = i + 1
          /\ UNCHANGED <<pc, err>>
    /\ UNCHANGED <<argVars, pagerank, iterVars>>

\* range(n) is exhausted: the counting loop and the return
SampleReturn ==
    /\ call = "sample_pagerank" /\ pc = "loop"
    /\ i >= n
    /\ pagerank' = SampleRanks(samp, n)
    /\ pc' = "done"
    /\ UNCHANGED <<argVars, err, sampleVars, iterVars>>

SampleNext ==
    \/ SampleStart
    \/ SampleEmptyCorpus
    \/ SampleStep
    \/ SampleStepZeroWeights
    \/ SampleReturn

(***************************************************************************)
(* iterate_pagerank                                                        *)
(***************************************************************************)
\* n = len(corpus); pagerank = {}; pr = {c: 1/n for c in corpus}
IterStart ==
    /\ call = "iterate_pagerank" /\ pc = "call"
    /\ pr' = InitialRanks(corpus)
    /\ prevVec' = InitialRanks(corpus).val
    /\ idx' = 1
    /\ pc' = "sweep"
    /\ UNCHANGED <<argVars, err, pagerank, sampleVars, page, sweeps>>

\* the body of `for page in corpus` for the next page
IterPage ==
    /\ call = "iterate_pagerank" /\ pc = "sweep"
    /\ idx <= N(corpus)
    /\ page' = Keys(corpus)[idx]
    /\ pagerank' = UpdatePage(corpus, damping, pagerank, pr, Keys(corpus)[idx])
    /\ idx' = idx + 1
    /\ UNCHANGED <<argVars, pc, err, sampleVars, pr, sweeps, prevVec>>

\* the stop test reads `page`, which the for loop over an empty corpus never bound
IterUnbound ==
    /\ call = "iterate_pagerank" /\ pc = "sweep"
    /\ idx > N(corpus)
    /\ page = NoPage
    /\ pc' = "error"
    /\ err' = "UnboundLocalError"
    /\ UNCHANGED <<argVars, pagerank, sampleVars, iterVars>>

\* the stop test passes: break and return pagerank
IterBreak ==
    /\ call = "iterate_pagerank" /\ pc = "sweep"
    /\ idx > N(corpus)
    /\ page # NoPage
    /\ StopTest(pagerank, pr, page)
    /\ sweeps' = sweeps + 1
    /\ pc' = "done"
    /\ UNCHANGED <<argVars, err, pagerank, sampleVars, pr, page, idx, prevVec>>

\* the stop test fails: pr = pagerank, and the while loop goes round
IterContinue ==
    /\ call = "iterate_pagerank" /\ pc = "sweep"
    /\ idx > N(corpus)
    /\ page # NoPage
    /\ ~StopTest(pagerank, pr, page)
    /\ sweeps < MaxSweeps
    /\ sweeps' = sweeps + 1
    /\ pr' = Rebind(pagerank)
    /\ prevVec' = pagerank
    /\ idx' = 1
    /\ UNCHANGED <<argVars, pc, err, pagerank, sampleVars, page>>

IterNext ==
    \/ IterStart
    \/ IterPage
    \/ IterUnbound
    \/ IterBreak
    \/ IterContinue

Next == SampleNext \/ IterNext

Spec == Init /\ [][Next]_vars

\* iterate_pagerank alone; the interpreter always executes the next statement
IterSpec == IterInit /\ [][IterNext]_vars /\ WF_vars(IterNext)

(***************************************************************************)
(* Properties                                                              *)
(***************************************************************************)
Sampling == call = "sample_pagerank"
Iterating == call = "iterate_pagerank"
Returned == pc = "done"
NonEmpty == DOMAIN corpus # {}

\* sum of the values of dict f
RSum(f) == RSumOver(f, DOMAIN f)

\* |a - b| <= 0.001
Close(a, b) == RLeq(RAbs(RSub(a, b)), Tolerance)

\* C1: when iterate_pagerank returns, no page of the returned vector differs
\* by more than 0.001 from its value in the vector the preceding sweep left
\* (the initial 1/N vector when the first sweep is the last one).
MaxDeltaWithinTolerance ==
    (Iterating /\ Returned) =>
        \A p \in DOMAIN corpus : Close(pagerank[p], prevVec[p])

\* C2: every distribution transition_model returns covers all N pages and
\* sums to exactly 1; for a dangling page every page gets (1-d)/N + d/N = 1/N.
TransitionSumsToOne ==
    (Sampling /\ Len(samp) > 0) =>
        /\ DOMAIN tm = DOMAIN corpus
        /\ RSum(tm) = One
        /\ corpus[samp[Len(samp)]] = {} =>
               \A q \in DOMAIN corpus : tm[q] = Rat(1, N(corpus))

\* C3: the vector iterate_pagerank returns sums to exactly 1 (so the corpus
\* of one page without links returns rank 1 for it).
IterateSumsToOne ==
    (Iterating /\ Returned) => RSum(pagerank) = One

\* C4: for n > 0 the vector sample_pagerank returns has exactly the corpus
\* pages as keys, a page never visited being present with rank 0.
SampleDomainIsCorpus ==
    (Sampling /\ Returned /\ n > 0) =>
        /\ DOMAIN pagerank = DOMAIN corpus
        /\ \A p \in DOMAIN corpus : Count(samp, p) = 0 => pagerank[p] = Zero

\* total of the visit counts of all corpus pages
RECURSIVE SumCounts(_, _)
SumCounts(s, S) ==
    IF S = {} THEN 0
    ELSE LET x == CHOOSE y \in S : TRUE
         IN  Count(s, x) + SumCounts(s, S \ {x})

\* C5: sample_pagerank records exactly one page per step, so after k steps
\* the visit counts sum to k; in the returned vector (n > 0) each rank is the
\* page's visit count divided by n, and the ranks sum to exactly 1.
SampleCountsPartition ==
    Sampling =>
        /\ pc = "loop" =>
               /\ Len(samp) = i
               /\ SumCounts(samp, DOMAIN corpus) = i
        /\ (Returned /\ n > 0) =>
               /\ SumCounts(samp, DOMAIN corpus) = n
               /\ \A j \in DOMAIN pagerank : pagerank[j] = Rat(Count(samp, j), n)
               /\ \A j \in DOMAIN corpus : Count(samp, j) > 0 => j \in DOMAIN pagerank
               /\ RSum(pagerank) = One

\* C5 witness: a walk of at least two steps over at least two pages returned.
SampleWalkReturned ==
    Sampling /\ Returned /\ n >= 2 /\ Cardinality(DOMAIN pagerank) >= 2

\* C6: with an empty corpus either estimator ends in an InvalidArgument
\* error and never returns.
EmptyCorpusInvalidArgument ==
    (~NonEmpty /\ pc \in {"done", "error"}) =>
        (pc = "error" /\ err = "InvalidArgument")

\* C7: sample_pagerank with n <= 0 on a non-empty corpus ends in an
\* InvalidArgument error and returns no rank vector.
NonPositiveSamplesRejected ==
    (Sampling /\ NonEmpty /\ n <= 0 /\ pc \in {"done", "error"}) =>
        (pc = "error" /\ err = "InvalidArgument")

\* C8: the vector iterate_pagerank returns is the one it returns for every
\* other enumeration order of the same corpus mapping.
IterateOrderIndependent ==
    (Iterating /\ Returned) =>
        \A o \in Orders(DOMAIN corpus) :
            IterateResult(corpus, o, damping) = pagerank

\* C9: while a sweep is in progress the vector pr denotes is still the one
\* the previous sweep left, and every rank written in this sweep was computed
\* from that vector alone.
JacobiUpdate ==
    (Iterating /\ pc = "sweep") =>
        /\ Deref(pr, pagerank) = prevVec
        /\ \A k \in 1..(idx - 1) :
               pagerank[Keys(corpus)[k]] =
                   NewRank(corpus, prevVec, Keys(corpus)[k], damping)

\* the call has returned and took at most two sweeps
ReturnedWithinTwoSweeps == Returned /\ sweeps <= 2

\* after the first sweep pr is the dict pagerank, and the stop test passes
LaterSweepsCompareSelf ==
    (pc = "sweep" /\ sweeps >= 1) =>
        (pr.alias /\ (idx > N(corpus) => StopTest(pagerank, pr, page)))

ActionsAgreeWithIterateResult ==
    (Iterating /\ Returned) =>
        IterateResult(corpus, Keys(corpus), damping) = pagerank

====
